---- MODULE Spec2Model ----
(***************************************************************************)
(* A model of inferno's collapse-perf (src/src/collapse-perf.rs): the      *)
(* line loop of handle_file, the PerfState parser it drives, and the pure  *)
(* helpers that take header and stack lines apart and tidy frame names.    *)
(*                                                                         *)
(* A Rust &str / String is modelled as a sequence of one-character         *)
(* strings, so that slicing, searching and replacing are computed          *)
(* character by character, as the code does.  Offsets are 1-based here and *)
(* 0-based in the source; every slice below states the source slice it     *)
(* stands for.  All text is ASCII, so byte offsets and character offsets   *)
(* coincide.                                                               *)
(***************************************************************************)
EXTENDS Integers, Sequences, FiniteSets, TLC

VARIABLES
    in_event,     \* PerfState.in_event
    skip_stack,   \* PerfState.skip_stack
    stack,        \* PerfState.stack, front first
    occurrences,  \* PerfState.occurrences: folded key -> count
    pname,        \* PerfState.pname
    opt,          \* PerfState.opt
    read,         \* the raw lines read_line has returned so far, in order
    status,       \* where handle_file is: "reading", "finished", "panicked"
    out,          \* the lines finish has printed to stdout, in order
    stderr        \* the diagnostics printed with eprintln!/eprint!, in order

vars == <<in_event, skip_stack, stack, occurrences, pname, opt,
          read, status, out, stderr>>

----------------------------------------------------------------------------
(* Characters and strings *)

\* The byte value of each character the model uses (str ordering is byte order).
Ascii ==
    (" " :> 32) @@ ("#" :> 35) @@ ("(" :> 40) @@ (")" :> 41) @@ ("*" :> 42) @@
    ("+" :> 43) @@ ("-" :> 45) @@ ("." :> 46) @@ ("/" :> 47) @@
    ("0" :> 48) @@ ("1" :> 49) @@ ("2" :> 50) @@ ("3" :> 51) @@ ("4" :> 52) @@
    ("5" :> 53) @@ ("6" :> 54) @@ ("7" :> 55) @@ ("8" :> 56) @@ ("9" :> 57) @@
    (":" :> 58) @@ (";" :> 59) @@ ("<" :> 60) @@ (">" :> 62) @@ ("?" :> 63) @@
    ("C" :> 67) @@ ("D" :> 68) @@ ("Z" :> 90) @@
    ("[" :> 91) @@ ("]" :> 93) @@ ("_" :> 95) @@
    ("a" :> 97) @@ ("b" :> 98) @@ ("c" :> 99) @@ ("d" :> 100) @@ ("e" :> 101) @@
    ("f" :> 102) @@ ("g" :> 103) @@ ("h" :> 104) @@ ("i" :> 105) @@ ("j" :> 106) @@
    ("k" :> 107) @@ ("l" :> 108) @@ ("m" :> 109) @@ ("n" :> 110) @@ ("o" :> 111) @@
    ("p" :> 112) @@ ("r" :> 114) @@ ("s" :> 115) @@ ("t" :> 116) @@ ("u" :> 117) @@
    ("v" :> 118) @@ ("w" :> 119) @@ ("x" :> 120) @@ ("y" :> 121) @@ ("z" :> 122)

\* char::is_ascii_digit
is_ascii_digit(c) == c \in {"0", "1", "2", "3", "4", "5", "6", "7", "8", "9"}

\* char::is_ascii_hexdigit
is_ascii_hexdigit(c) ==
    \/ is_ascii_digit(c)
    \/ c \in {"a", "b", "c", "d", "e", "f", "A", "B", "C", "D", "E", "F"}

\* char::is_whitespace, on the characters of the model
is_whitespace(c) == c = " "

\* s[from..] of the source, with `from` 1-based here
From(s, from) == SubSeq(s, from, Len(s))

\* str::starts_with
starts_with(s, p) == Len(p) <= Len(s) /\ SubSeq(s, 1, Len(p)) = p

\* str::ends_with
ends_with(s, p) == Len(p) <= Len(s) /\ SubSeq(s, Len(s) - Len(p) + 1, Len(s)) = p

\* str::find of a pattern: the 1-based offset of the first match, 0 for None
find(s, p) ==
    LET hits == {i \in 1..(Len(s) - Len(p) + 1) : SubSeq(s, i, i + Len(p) - 1) = p}
    IN  IF hits = {} THEN 0 ELSE CHOOSE i \in hits : \A j \in hits : i <= j

\* str::rfind of a pattern: the 1-based offset of the last match, 0 for None
rfind(s, p) ==
    LET hits == {i \in 1..(Len(s) - Len(p) + 1) : SubSeq(s, i, i + Len(p) - 1) = p}
    IN  IF hits = {} THEN 0 ELSE CHOOSE i \in hits : \A j \in hits : i >= j

\* str::replace of one character by another
replace(s, c, d) == [i \in 1..Len(s) |-> IF s[i] = c THEN d ELSE s[i]]

\* str::trim_end
RECURSIVE trim_end(_)
trim_end(s) ==
    IF s # <<>> /\ is_whitespace(s[Len(s)])
    THEN trim_end(SubSeq(s, 1, Len(s) - 1))
    ELSE s

\* str::trim_start
RECURSIVE trim_start(_)
trim_start(s) ==
    IF s # <<>> /\ is_whitespace(s[1]) THEN trim_start(Tail(s)) ELSE s

\* Ord for str: lexicographic on bytes, a proper prefix first
RECURSIVE str_lt(_, _)
str_lt(a, b) ==
    IF b = <<>> THEN FALSE
    ELSE IF a = <<>> THEN TRUE
    ELSE IF a[1] # b[1] THEN Ascii[a[1]] < Ascii[b[1]]
    ELSE str_lt(Tail(a), Tail(b))

\* Display for usize: the decimal digits of n
RECURSIVE fmt_usize(_)
fmt_usize(n) ==
    LET d == <<"0", "1", "2", "3", "4", "5", "6", "7", "8", "9">>[(n % 10) + 1]
    IN  IF n < 10 THEN <<d>> ELSE fmt_usize(n \div 10) \o <<d>>

----------------------------------------------------------------------------
(* Field extraction *)

\* Option::None of the two extractors
None == [some |-> FALSE]

\* The loop of event_line_parts from character idx on, with the loop's three
\* locals: word_start (1-based), all_digits, contains_slash_at (0 for None).
RECURSIVE event_line_scan(_, _, _, _, _)
event_line_scan(line, idx, word_start, all_digits, contains_slash_at) ==
    IF idx > Len(line) THEN None
    ELSE LET c == line[idx] IN
        IF c = " " THEN
            IF all_digits THEN
                \* comm = line[..(word_start - 1)], pid and tid as sliced
                [some |-> TRUE,
                 comm |-> SubSeq(line, 1, word_start - 2),
                 pid  |-> IF contains_slash_at # 0
                          THEN SubSeq(line, word_start, contains_slash_at - 1)
                          ELSE <<"?">>,
                 tid  |-> IF contains_slash_at # 0
                          THEN SubSeq(line, contains_slash_at + 1, idx - 1)
                          ELSE SubSeq(line, word_start, idx - 1)]
            ELSE event_line_scan(line, idx + 1, idx + 1, TRUE, contains_slash_at)
        ELSE IF c = "/" THEN
            event_line_scan(line, idx + 1, word_start, all_digits,
                            IF all_digits THEN idx ELSE contains_slash_at)
        ELSE IF is_ascii_digit(c) THEN
            event_line_scan(line, idx + 1, word_start, all_digits, contains_slash_at)
        ELSE event_line_scan(line, idx + 1, word_start, FALSE, 0)

\* PerfState::event_line_parts
event_line_parts(line) == event_line_scan(line, 1, 1, FALSE, 0)

\* The result of stack_line_parts: Some((pc, rawfunc, module)), None, or a panic
\* of the slice module[1..(module.len() - 1)] when the last token has fewer
\* than 2 characters (the range then starts after its end).
stack_line_parts(line) ==
    LET l1     == trim_start(line)
        sp1    == find(l1, <<" ">>)
        pc     == SubSeq(l1, 1, sp1 - 1)
        rest   == From(l1, sp1 + 1)
        sp2    == rfind(rest, <<" ">>)
        module == From(rest, sp2 + 1)
    IN  IF sp1 = 0 THEN [kind |-> "none"]
        ELSE IF Len(module) < 2 THEN [kind |-> "panic"]
        ELSE IF sp2 = 0 THEN [kind |-> "none"]
        ELSE [kind    |-> "some",
              pc      |-> pc,
              rawfunc |-> SubSeq(rest, 1, sp2 - 1),
              module  |-> SubSeq(module, 2, Len(module) - 1)]

----------------------------------------------------------------------------
(* Frame names *)

\* "[unknown]", "unknown", "anonymous namespace)", "+0x" and the annotation texts
UnknownBr == <<"[", "u", "n", "k", "n", "o", "w", "n", "]">>
Unknown == <<"u", "n", "k", "n", "o", "w", "n">>
AnonNs ==
    <<"a", "n", "o", "n", "y", "m", "o", "u", "s", " ",
      "n", "a", "m", "e", "s", "p", "a", "c", "e", ")">>
PlusHex == <<"+", "0", "x">>
KernelSuffix == <<"_", "[", "k", "]">>
JitSuffix == <<"_", "[", "j", "]">>
Vmlinux == <<"v", "m", "l", "i", "n", "u", "x">>
TmpPerf == <<"/", "t", "m", "p", "/", "p", "e", "r", "f", "-">>
DotMap == <<".", "m", "a", "p">>

\* the symbol-offset step without its test of the characters after `+0x`
strip_offset_unchecked(rawfunc) ==
    LET offset == rfind(rawfunc, PlusHex)
    IN  IF offset # 0 THEN SubSeq(rawfunc, 1, offset - 1) ELSE rawfunc

\* The symbol-offset step of on_stack_line
strip_offset(rawfunc) ==
    LET offset == rfind(rawfunc, PlusHex)
        end    == From(rawfunc, offset + 3)
    IN  IF offset # 0 /\ \A i \in 1..Len(end) : is_ascii_hexdigit(end[i])
        THEN SubSeq(rawfunc, 1, offset - 1)
        ELSE rawfunc

\* with_module_fallback taking the text after the first `/` of the module
with_module_fallback_first_slash(module, rawfunc, pc, include_addrs) ==
    IF rawfunc = UnknownBr THEN
        LET slash == find(module, <<"/">>)
            name  == IF module # UnknownBr THEN From(module, slash + 1) ELSE Unknown
        IN  IF include_addrs
            THEN <<"[">> \o name \o <<" ", "<">> \o pc \o <<">", "]">>
            ELSE <<"[">> \o name \o <<"]">>
    ELSE rawfunc

\* with_module_fallback
with_module_fallback(module, rawfunc, pc, include_addrs) ==
    IF rawfunc = UnknownBr THEN
        LET slash == rfind(module, <<"/">>)
            name  == IF module # UnknownBr THEN From(module, slash + 1) ELSE Unknown
        IN  IF include_addrs
            THEN <<"[">> \o name \o <<" ", "<">> \o pc \o <<">", "]">>
            ELSE <<"[">> \o name \o <<"]">>
    ELSE rawfunc

\* tidy_generic without its replacement of `;`
tidy_generic_keeps_semicolon(func0) ==
    LET func        == func0
        first_paren == find(func, <<"(">>)
    IN  IF first_paren = 0 THEN func
        ELSE IF starts_with(From(func, first_paren), AnonNs) THEN func
        ELSE IF first_paren > 1 /\ func[first_paren - 1] = "." THEN func
        ELSE SubSeq(func, 1, first_paren - 1)

\* tidy_generic without its test for a `.` before the first `(`
tidy_generic_no_go(func0) ==
    LET func        == replace(func0, ";", ":")
        first_paren == find(func, <<"(">>)
    IN  IF first_paren = 0 THEN func
        ELSE IF starts_with(From(func, first_paren), AnonNs) THEN func
        ELSE SubSeq(func, 1, first_paren - 1)

\* tidy_generic.  func[first_paren..] starts at the "(" itself.  The subtraction
\* first_paren - 1 is on usize; func never starts with "(" here (on_stack_line
\* returns before for such a rawfunc, and the fallback name starts with "[").
tidy_generic(func0) ==
    LET func        == replace(func0, ";", ":")
        first_paren == find(func, <<"(">>)
    IN  IF first_paren = 0 THEN func
        ELSE IF starts_with(From(func, first_paren), AnonNs) THEN func
        ELSE IF first_paren > 1 /\ func[first_paren - 1] = "." THEN func
        ELSE SubSeq(func, 1, first_paren - 1)

\* the annotation step without its `module != "[unknown]"`
annotate_unknown_as_kernel(func, module, o) ==
    LET k == IF /\ o.annotate_kernel
                /\ (starts_with(module, <<"[">>) \/ ends_with(module, Vmlinux))
             THEN func \o KernelSuffix ELSE func
    IN  IF o.annotate_jit /\ starts_with(module, TmpPerf) /\ ends_with(module, DotMap)
        THEN k \o JitSuffix ELSE k

\* The annotation step of on_stack_line
annotate(func, module, o) ==
    LET k == IF /\ o.annotate_kernel
                /\ (starts_with(module, <<"[">>) \/ ends_with(module, Vmlinux))
                /\ module # UnknownBr
             THEN func \o KernelSuffix ELSE func
    IN  IF o.annotate_jit /\ starts_with(module, TmpPerf) /\ ends_with(module, DotMap)
        THEN k \o JitSuffix ELSE k

\* VecDeque::push_back in the place of push_front
push_back(s, e) == s \o <<e>>

\* VecDeque::push_front
push_front(s, e) == <<e>> \o s

\* the label with include_pid tested before include_tid
process_label_pid_first(comm, pid, tid, o) ==
    LET base == replace(comm, " ", "_")
    IN  IF o.include_pid THEN base \o <<"-">> \o pid
        ELSE IF o.include_tid THEN base \o <<"-">> \o pid \o <<"/">> \o tid
        ELSE base

\* The process label on_event_line builds from the extracted fields
process_label(comm, pid, tid, o) ==
    LET base == replace(comm, " ", "_")
    IN  IF o.include_tid THEN base \o <<"-">> \o pid \o <<"/">> \o tid
        ELSE IF o.include_pid THEN base \o <<"-">> \o pid
        ELSE base

\* The key after_event builds: pname, then ";" and the entry for each entry
RECURSIVE stack_str(_, _)
stack_str(p, s) ==
    IF s = <<>> THEN p ELSE stack_str(p \o <<";">> \o s[1], Tail(s))

\* a count that starts again at 1 for a key already there
count_key_restarting(occ, key) ==
    IF key \in DOMAIN occ
    THEN [occ EXCEPT ![key] = 1]
    ELSE occ @@ (key :> 1)

\* *occurrences.entry(key).or_insert(0) += 1
count_key(occ, key) ==
    IF key \in DOMAIN occ
    THEN [occ EXCEPT ![key] = @ + 1]
    ELSE occ @@ (key :> 1)

\* the keys left in decreasing order
RECURSIVE sort_keys_reversed(_)
sort_keys_reversed(keys) ==
    IF keys = {} THEN <<>>
    ELSE LET most == CHOOSE k \in keys : \A j \in keys : j = k \/ str_lt(j, k)
         IN  <<most>> \o sort_keys_reversed(keys \ {most})

\* keys.sort(): the keys in increasing str order
RECURSIVE sort_keys(_)
sort_keys(keys) ==
    IF keys = {} THEN <<>>
    ELSE LET least == CHOOSE k \in keys : \A j \in keys : j = k \/ str_lt(k, j)
         IN  <<least>> \o sort_keys(keys \ {least})

\* What finish prints: "{} {}" of each key in sorted order and its count
finish_lines(occ) ==
    LET keys == sort_keys(DOMAIN occ)
    IN  [i \in 1..Len(keys) |-> keys[i] \o <<" ">> \o fmt_usize(occ[keys[i]])]

----------------------------------------------------------------------------
(* The parser: PerfState *)

\* Opt, without infile: every combination of the six flags
Opts ==
    [include_pid : BOOLEAN, include_tid : BOOLEAN, include_addrs : BOOLEAN,
     annotate_jit : BOOLEAN, annotate_kernel : BOOLEAN, annotate_all : BOOLEAN]

\* The options when no flag is given
DefaultOpt ==
    [include_pid |-> FALSE, include_tid |-> FALSE, include_addrs |-> FALSE,
     annotate_jit |-> FALSE, annotate_kernel |-> FALSE, annotate_all |-> FALSE]

\* PerfState::from(opt), and handle_file before its first read_line
InitWith(optset) ==
    /\ opt \in optset
    /\ in_event = FALSE
    /\ skip_stack = FALSE
    /\ stack = <<>>
    /\ occurrences = <<>>
    /\ pname = <<>>
    /\ read = <<>>
    /\ status = "reading"
    /\ out = <<>>
    /\ stderr = <<>>

\* on_event_line without its `self.in_event = false` on a failed extraction
on_event_line_stays_in_event(line) ==
    LET parts == event_line_parts(line)
    IN  IF parts.some
        THEN /\ in_event' = TRUE
             /\ pname' = process_label(parts.comm, parts.pid, parts.tid, opt)
             /\ UNCHANGED <<skip_stack, stack, occurrences, opt, stderr>>
        ELSE /\ in_event' = TRUE
             /\ stderr' = Append(stderr, <<"weird event line", line>>)
             /\ UNCHANGED <<skip_stack, stack, occurrences, opt, pname>>

\* PerfState::on_event_line.  The event name is sliced and dropped: the filter
\* that would set skip_stack is `if false`.
on_event_line(line) ==
    LET parts == event_line_parts(line)
    IN  IF parts.some
        THEN /\ in_event' = TRUE
             /\ pname' = process_label(parts.comm, parts.pid, parts.tid, opt)
             /\ UNCHANGED <<skip_stack, stack, occurrences, opt, stderr>>
        ELSE /\ in_event' = FALSE
             /\ stderr' = Append(stderr, <<"weird event line", line>>)
             /\ UNCHANGED <<skip_stack, stack, occurrences, opt, pname>>

\* The frame on_stack_line pushes for the extracted parts
frame_name(parts, o) ==
    annotate(
        tidy_generic(
            with_module_fallback(parts.module, strip_offset(parts.rawfunc),
                                 parts.pc, o.include_addrs)),
        parts.module, o)

\* a stack-line handler that takes a line of the shape of a header as a header
on_stack_line_reading_headers(line) ==
    LET parts == stack_line_parts(line)
    IN  IF event_line_parts(line).some THEN on_event_line(line)
        ELSE /\ parts.kind # "panic"
             /\ IF parts.kind = "none"
                THEN /\ stderr' = Append(stderr, <<"weird stack line", line>>)
                     /\ UNCHANGED stack
                ELSE IF starts_with(strip_offset(parts.rawfunc), <<"(">>)
                THEN UNCHANGED <<stack, stderr>>
                ELSE /\ stack' = push_front(stack, frame_name(parts, opt))
                     /\ UNCHANGED stderr
             /\ UNCHANGED <<in_event, skip_stack, occurrences, opt, pname>>

\* PerfState::on_stack_line, when stack_line_parts returns
on_stack_line(line) ==
    LET parts == stack_line_parts(line)
    IN  /\ skip_stack \/ parts.kind # "panic"
        /\ IF skip_stack THEN UNCHANGED <<stack, stderr>>
           ELSE IF parts.kind = "none"
           THEN /\ stderr' = Append(stderr, <<"weird stack line", line>>)
                /\ UNCHANGED stack
           ELSE IF starts_with(strip_offset(parts.rawfunc), <<"(">>)
           THEN UNCHANGED <<stack, stderr>>
           ELSE /\ stack' = push_front(stack, frame_name(parts, opt))
                /\ UNCHANGED stderr
        /\ UNCHANGED <<in_event, skip_stack, occurrences, opt, pname>>

\* after_event without the emptying of the stack
after_event_keeps_stack ==
    /\ occurrences' = count_key(occurrences, stack_str(pname, stack))
    /\ in_event' = FALSE
    /\ skip_stack' = FALSE
    /\ stack' = stack
    /\ UNCHANGED <<opt, pname, stderr>>

\* PerfState::after_event
after_event ==
    /\ occurrences' = count_key(occurrences, stack_str(pname, stack))
    /\ in_event' = FALSE
    /\ skip_stack' = FALSE
    /\ stack' = <<>>
    /\ UNCHANGED <<opt, pname, stderr>>

\* finish that first counts the event the stream ended in
finish_flushing ==
    /\ out' = out \o finish_lines(IF in_event
                                  THEN count_key(occurrences, stack_str(pname, stack))
                                  ELSE occurrences)
    /\ UNCHANGED <<in_event, skip_stack, stack, occurrences, opt, pname, stderr>>

\* PerfState::finish
finish ==
    /\ out' = out \o finish_lines(occurrences)
    /\ UNCHANGED <<in_event, skip_stack, stack, occurrences, opt, pname, stderr>>

----------------------------------------------------------------------------
(* The line loop: handle_file.  One action per way through one iteration. *)

\* read_line returns the line l
Reads(l) ==
    /\ status = "reading"
    /\ read' = Append(read, l)

\* a line starting with '#': continue
HandleComment(l) ==
    /\ Reads(l)
    /\ starts_with(l, <<"#">>)
    /\ UNCHANGED <<in_event, skip_stack, stack, occurrences, pname, opt,
                   status, out, stderr>>

\* a line that is empty once trimmed: after_event
HandleBlank(l) ==
    /\ Reads(l)
    /\ ~starts_with(l, <<"#">>)
    /\ trim_end(l) = <<>>
    /\ after_event
    /\ UNCHANGED <<status, out>>

\* any other line while in_event is false: on_line calls on_event_line
HandleEventLine(l) ==
    /\ Reads(l)
    /\ ~starts_with(l, <<"#">>)
    /\ trim_end(l) # <<>>
    /\ ~in_event
    /\ on_event_line(trim_end(l))
    /\ UNCHANGED <<status, out>>

\* any other line while in_event is true: on_line calls on_stack_line
HandleStackLine(l) ==
    /\ Reads(l)
    /\ ~starts_with(l, <<"#">>)
    /\ trim_end(l) # <<>>
    /\ in_event
    /\ on_stack_line(trim_end(l))
    /\ UNCHANGED <<status, out>>

\* the same, when stack_line_parts panics: the process aborts, nothing is printed
HandleStackLinePanic(l) ==
    /\ Reads(l)
    /\ ~starts_with(l, <<"#">>)
    /\ trim_end(l) # <<>>
    /\ in_event
    /\ ~skip_stack
    /\ stack_line_parts(trim_end(l)).kind = "panic"
    /\ status' = "panicked"
    /\ UNCHANGED <<in_event, skip_stack, stack, occurrences, pname, opt,
                   out, stderr>>

\* read_line returns 0: break, then finish
HandleEof ==
    /\ status = "reading"
    /\ finish
    /\ status' = "finished"
    /\ UNCHANGED read

----------------------------------------------------------------------------
(* Inputs *)

\* the header of the end-to-end scenario: `java 100 1.0: cycles:`
JavaHeader ==
    <<"j", "a", "v", "a", " ", "1", "0", "0", " ", "1", ".", "0", ":", " ",
      "c", "y", "c", "l", "e", "s", ":">>

\* a header whose comm holds a `;`: `java;bar 100 1.0: cycles:`
JavaBarHeader ==
    <<"j", "a", "v", "a", ";", "b", "a", "r", " ", "1", "0", "0", " ", "1",
      ".", "0", ":", " ", "c", "y", "c", "l", "e", "s", ":">>

\* the stack line for foo of the scenario: `  ffff foo (/lib/a.so)`
FooLine ==
    <<" ", " ", "f", "f", "f", "f", " ", "f", "o", "o", " ", "(", "/", "l",
      "i", "b", "/", "a", ".", "s", "o", ")">>

\* the stack line for bar of the scenario: `  ffff bar (/lib/a.so)`
BarLine ==
    <<" ", " ", "f", "f", "f", "f", " ", "b", "a", "r", " ", "(", "/", "l",
      "i", "b", "/", "a", ".", "s", "o", ")">>

\* a blank line
BlankLine == <<>>

\* a comment line: `# cmd`
CommentLine == <<"#", " ", "c", "m", "d">>

\* a stack line whose last token has one character: `ffff foo x`
ShortModuleLine == <<"f", "f", "f", "f", " ", "f", "o", "o", " ", "x">>

\* one word and trailing white space: no header, and no stack line: `ffff `
NoSpaceLine == <<"f", "f", "f", "f", " ">>

\* The lines a stream is made of
Lines ==
    {JavaHeader, JavaBarHeader, FooLine, BarLine, BlankLine, CommentLine,
     ShortModuleLine, NoSpaceLine}

\* The longest stream read line by line over all of Lines
MaxLines == 4

\* The end-to-end scenario: the same event of two frames, twice
Scenario ==
    <<JavaHeader, FooLine, BarLine, BlankLine,
      JavaHeader, FooLine, BarLine, BlankLine>>

\* An event of label `java;bar` without frames, and one of label `java` and
\* the frame bar
SharedKeyStream == <<JavaBarHeader, BlankLine, JavaHeader, BarLine, BlankLine>>

\* a stack line whose function name holds a `;`: `  ffff a;b (/lib/a.so)`
SemiLine ==
    <<" ", " ", "f", "f", "f", "f", " ", "a", ";", "b", " ", "(", "/", "l",
      "i", "b", "/", "a", ".", "s", "o", ")">>

\* a stack line without symbol whose module holds a `;`:
\* `  ffff [unknown] (/lib/a;b.so)`
UnknownSemiLine ==
    <<" ", " ", "f", "f", "f", "f", " ", "[", "u", "n", "k", "n", "o", "w",
      "n", "]", " ", "(", "/", "l", "i", "b", "/", "a", ";", "b", ".", "s",
      "o", ")">>

\* An event of two frames whose raw texts hold the delimiter
SemiStream == <<JavaHeader, SemiLine, UnknownSemiLine, BlankLine>>

\* a line of white space only
SpacesLine == <<" ", " ">>

\* A line of white space before any event, and one that ends an event
SpacesStream == <<SpacesLine, JavaHeader, FooLine, SpacesLine>>

\* The streams read to their end whatever their length
LongStreams == {Scenario, SharedKeyStream, SemiStream, SpacesStream}

\* The options that reach the process label
LabelOpts ==
    {o \in Opts : /\ ~o.include_addrs /\ ~o.annotate_jit
                  /\ ~o.annotate_kernel /\ ~o.annotate_all}

----------------------------------------------------------------------------
(* Spec: every stream of at most MaxLines lines over Lines, and each of    *)
(* LongStreams                                                             *)

StreamPool ==
    (IF Len(read) < MaxLines THEN Lines ELSE {})
    \cup
    {t[Len(read) + 1] : t \in {u \in LongStreams :
                                  /\ Len(read) < Len(u)
                                  /\ SubSeq(u, 1, Len(read)) = read}}

Init == InitWith(LabelOpts)

Next ==
    \/ \E l \in StreamPool : HandleComment(l)
    \/ \E l \in StreamPool : HandleBlank(l)
    \/ \E l \in StreamPool : HandleEventLine(l)
    \/ \E l \in StreamPool : HandleStackLine(l)
    \/ \E l \in StreamPool : HandleStackLinePanic(l)
    \/ HandleEof

Spec == Init /\ [][Next]_vars

----------------------------------------------------------------------------
(* SpecHeader: one candidate header line, then one more line.  The header  *)
(* ranges over every string of at most MaxHeaderLen characters of          *)
(* HeaderChars and over the header lines the source documents.             *)

\* comm java, pid 100, tid 200: `java 100/200 1.0: cycles:`
JavaPidTidHeader ==
    <<"j", "a", "v", "a", " ", "1", "0", "0", "/", "2", "0", "0", " ", "1",
      ".", "0", ":", " ", "c", "y", "c", "l", "e", "s", ":">>

\* documented at on_event_line: `V8 WorkerThread 25607 4794564.109216: cycles:`
WorkerThreadHeader ==
    <<"V", "8", " ", "W", "o", "r", "k", "e", "r", "T", "h", "r", "e", "a",
      "d", " ", "2", "5", "6", "0", "7", " ", "4", "7", "9", "4", "5", "6",
      "4", ".", "1", "0", "9", "2", "1", "6", ":", " ", "c", "y", "c", "l",
      "e", "s", ":">>

\* documented at on_event_line: `java 24636/25607 [000] 4794564.109216: cycles:`
CpuBracketHeader ==
    <<"j", "a", "v", "a", " ", "2", "4", "6", "3", "6", "/", "2", "5", "6",
      "0", "7", " ", "[", "0", "0", "0", "]", " ", "4", "7", "9", "4", "5",
      "6", "4", ".", "1", "0", "9", "2", "1", "6", ":", " ", "c", "y", "c",
      "l", "e", "s", ":">>

\* documented at on_event_line: `vote   913    72.176760:     257597 cycles:uppp:`
VoteHeader ==
    <<"v", "o", "t", "e", " ", " ", " ", "9", "1", "3", " ", " ", " ", " ",
      "7", "2", ".", "1", "7", "6", "7", "6", "0", ":", " ", " ", " ", " ",
      " ", "2", "5", "7", "5", "9", "7", " ", "c", "y", "c", "l", "e", "s",
      ":", "u", "p", "p", "p", ":">>

HeaderChars == {"a", " ", "1", "/"}

\* The longest generated header line
MaxHeaderLen == 5

GeneratedHeaders == UNION {[1..n -> HeaderChars] : n \in 1..MaxHeaderLen}

HeaderLines ==
    GeneratedHeaders \cup
    {JavaHeader, JavaPidTidHeader, WorkerThreadHeader, CpuBracketHeader, VoteHeader}

HeaderPool ==
    IF read = <<>> THEN HeaderLines
    ELSE IF Len(read) = 1 THEN {FooLine, BlankLine, CommentLine, ShortModuleLine}
    ELSE {}

InitHeader == InitWith(LabelOpts)

NextHeader ==
    \/ \E l \in HeaderPool : HandleComment(l)
    \/ \E l \in HeaderPool : HandleBlank(l)
    \/ \E l \in HeaderPool : HandleEventLine(l)
    \/ \E l \in HeaderPool : HandleStackLine(l)
    \/ \E l \in HeaderPool : HandleStackLinePanic(l)
    \/ HandleEof

SpecHeader == InitHeader /\ [][NextHeader]_vars

----------------------------------------------------------------------------
(* SpecFrame: a header, one line in the event, a blank line.  The line in  *)
(* the event ranges over the stack lines `<pc> <rawfunc> (<module>)` built *)
(* from RawFuncs and Modules.                                              *)

\* `foo`
RawFoo == <<"f", "o", "o">>
\* `[unknown]`
RawUnknown == <<"[", "u", "n", "k", "n", "o", "w", "n", "]">>
\* `foo+0x1f`
RawOffset == <<"f", "o", "o", "+", "0", "x", "1", "f">>
\* `a;b`
RawSemi == <<"a", ";", "b">>
\* `f(int)`
RawArgs == <<"f", "(", "i", "n", "t", ")">>
\* `(swapper)`
RawSwapper == <<"(", "s", "w", "a", "p", "p", "e", "r", ")">>
\* `ns::(anonymous namespace)::f`
RawAnon ==
    <<"n", "s", ":", ":", "(", "a", "n", "o", "n", "y", "m", "o", "u", "s",
      " ", "n", "a", "m", "e", "s", "p", "a", "c", "e", ")", ":", ":", "f">>
\* `net/http.(*Client).Do`
RawGo ==
    <<"n", "e", "t", "/", "h", "t", "t", "p", ".", "(", "*", "C", "l", "i",
      "e", "n", "t", ")", ".", "D", "o">>
\* `foo+0xZZ`
RawBadOffset ==
    <<"f", "o", "o", "+", "0", "x", "Z", "Z">>
\* `[kernel.kallsyms]`
ModKallsyms ==
    <<"[", "k", "e", "r", "n", "e", "l", ".", "k", "a", "l", "l", "s", "y",
      "m", "s", "]">>
\* `/boot/vmlinux`
ModVmlinux ==
    <<"/", "b", "o", "o", "t", "/", "v", "m", "l", "i", "n", "u", "x">>
\* `/tmp/perf-1.map`
ModJit ==
    <<"/", "t", "m", "p", "/", "p", "e", "r", "f", "-", "1", ".", "m", "a",
      "p">>
\* `[unknown]`
ModUnknown == <<"[", "u", "n", "k", "n", "o", "w", "n", "]">>
\* `/path/to/foo.so`
ModLib ==
    <<"/", "p", "a", "t", "h", "/", "t", "o", "/", "f", "o", "o", ".", "s",
      "o">>
\* `/lib/a;b.so`
ModSemi == <<"/", "l", "i", "b", "/", "a", ";", "b", ".", "s", "o">>
\* `/tmp/perf-1.so`
ModPerfSo ==
    <<"/", "t", "m", "p", "/", "p", "e", "r", "f", "-", "1", ".", "s", "o">>
\* `/lib/x.map`
ModMap == <<"/", "l", "i", "b", "/", "x", ".", "m", "a", "p">>

RawFuncs ==
    {RawFoo, RawUnknown, RawOffset, RawSemi, RawArgs, RawSwapper,
     RawAnon, RawGo, RawBadOffset}

Modules ==
    {ModKallsyms, ModVmlinux, ModJit, ModUnknown, ModLib, ModSemi, ModPerfSo,
     ModMap}

\* `1234`
Pc == <<"1", "2", "3", "4">>

\* `  <pc> <rawfunc> (<module>)`
stack_line(pc, rawfunc, module) ==
    <<" ", " ">> \o pc \o <<" ">> \o rawfunc \o <<" ", "(">> \o module \o <<")">>

FrameLines == {stack_line(Pc, f, m) : f \in RawFuncs, m \in Modules}

\* The options that reach a frame name
FrameOpts == {o \in Opts : ~o.include_pid /\ ~o.include_tid}

FramePool ==
    IF read = <<>> THEN {JavaHeader}
    ELSE IF Len(read) = 1 THEN FrameLines \cup {CommentLine, ShortModuleLine}
    ELSE IF Len(read) = 2 THEN {BlankLine}
    ELSE {}

InitFrame == InitWith(FrameOpts)

NextFrame ==
    \/ \E l \in FramePool : HandleComment(l)
    \/ \E l \in FramePool : HandleBlank(l)
    \/ \E l \in FramePool : HandleEventLine(l)
    \/ \E l \in FramePool : HandleStackLine(l)
    \/ \E l \in FramePool : HandleStackLinePanic(l)
    \/ HandleEof

SpecFrame == InitFrame /\ [][NextFrame]_vars

----------------------------------------------------------------------------
(* SpecName: a header, one stack line, a blank line, under the default     *)
(* options.  The raw function name of the stack line ranges over every     *)
(* string of at most MaxOffsetLen characters of OffsetChars, every string  *)
(* of at most MaxParenLen characters of ParenChars, and the names above.   *)

OffsetChars == {"f", "+", "0", "x", "Z"}

\* The longest generated name of OffsetChars
MaxOffsetLen == 5

ParenChars == {"f", ".", "(", ";"}

\* The longest generated name of ParenChars
MaxParenLen == 4

GeneratedNames ==
    UNION {[1..n -> OffsetChars] : n \in 1..MaxOffsetLen}
    \cup UNION {[1..n -> ParenChars] : n \in 1..MaxParenLen}

NameLines == {stack_line(Pc, f, ModLib) : f \in GeneratedNames \cup RawFuncs}

NamePool ==
    IF read = <<>> THEN {JavaHeader}
    ELSE IF Len(read) = 1 THEN NameLines \cup {CommentLine, ShortModuleLine}
    ELSE IF Len(read) = 2 THEN {BlankLine}
    ELSE {}

InitName == InitWith({DefaultOpt})

NextName ==
    \/ \E l \in NamePool : HandleComment(l)
    \/ \E l \in NamePool : HandleBlank(l)
    \/ \E l \in NamePool : HandleEventLine(l)
    \/ \E l \in NamePool : HandleStackLine(l)
    \/ \E l \in NamePool : HandleStackLinePanic(l)
    \/ HandleEof

SpecName == InitName /\ [][NextName]_vars

----------------------------------------------------------------------------
(* The input as the loop classifies it, read off the lines alone *)

Last(s) == s[Len(s)]

Reverse(s) == [i \in 1..Len(s) |-> s[Len(s) + 1 - i]]

Max(S) == CHOOSE x \in S : \A y \in S : y <= x

Min(S) == CHOOSE x \in S : \A y \in S : x <= y

IsComment(l) == l # <<>> /\ l[1] = "#"

IsBlank(l) == ~IsComment(l) /\ \A i \in 1..Len(l) : l[i] = " "

\* a line that reaches on_line
IsText(l) == ~IsComment(l) /\ ~IsBlank(l)

\* a parsable header line, and one that is not
HeaderOk(l) == IsText(l) /\ event_line_parts(trim_end(l)).some
HeaderBad(l) == IsText(l) /\ ~event_line_parts(trim_end(l)).some

\* a parsable frame line
FrameOk(l) == IsText(l) /\ stack_line_parts(trim_end(l)).kind = "some"

BlankIdx(s) == {i \in 1..Len(s) : IsBlank(s[i])}

\* where the event that line i belongs to starts: after the blank line before i
EventStart(s, i) == 1 + Max({0} \cup {b \in BlankIdx(s) : b < i})

\* events only: a header, frame lines, one blank line, and so on to the end
WellFormed(s) ==
    /\ s # <<>> => IsBlank(Last(s))
    /\ \A i \in 1..Len(s) :
          IF i = EventStart(s, i) THEN HeaderOk(s[i])
          ELSE IsBlank(s[i]) \/ FrameOk(s[i])

\* the frame a line contributes to its event, if any
LineFrames(l, o) ==
    IF FrameOk(l)
    THEN LET parts == stack_line_parts(trim_end(l))
         IN  IF starts_with(strip_offset(parts.rawfunc), <<"(">>) THEN <<>>
             ELSE <<frame_name(parts, o)>>
    ELSE <<>>

\* the frames of lines from..to, appended in the order the lines are read
RECURSIVE AppendedFrames(_, _, _, _)
AppendedFrames(s, from, to, o) ==
    IF from > to THEN <<>>
    ELSE AppendedFrames(s, from, to - 1, o) \o LineFrames(s[to], o)

\* the (process label, frames root first) pair of the event that ends at blank b
EventPair(s, b, o) ==
    LET h == EventStart(s, b)
        p == event_line_parts(trim_end(s[h]))
    IN  <<process_label(p.comm, p.pid, p.tid, o),
          Reverse(AppendedFrames(s, h + 1, b - 1, o))>>

\* the folded key of a pair: the label, then `;` and the frame for each frame
RECURSIVE Folded(_, _)
Folded(label, frames) ==
    IF frames = <<>> THEN label
    ELSE Folded(label, SubSeq(frames, 1, Len(frames) - 1))
         \o <<";">> \o Last(frames)

FoldedKey(pair) == Folded(pair[1], pair[2])

\* the header of the event being read, 0 when no event is
HeaderIdx(s) ==
    LET after == {i \in 1..Len(s) : i >= EventStart(s, Len(s) + 1) /\ HeaderOk(s[i])}
    IN  IF after = {} THEN 0 ELSE Min(after)

\* a step of the loop that reads a line which reaches on_line
TextStep == Len(read') = Len(read) + 1 /\ IsText(Last(read'))

\* a step of the loop that reads a blank line
BlankStep == Len(read') = Len(read) + 1 /\ IsBlank(Last(read'))

\* the key and the count of a printed line `<key> <count>`
DigitValue ==
    ("0" :> 0) @@ ("1" :> 1) @@ ("2" :> 2) @@ ("3" :> 3) @@ ("4" :> 4) @@
    ("5" :> 5) @@ ("6" :> 6) @@ ("7" :> 7) @@ ("8" :> 8) @@ ("9" :> 9)

RECURSIVE Decimal(_)
Decimal(ds) ==
    IF ds = <<>> THEN 0
    ELSE 10 * Decimal(SubSeq(ds, 1, Len(ds) - 1)) + DigitValue[Last(ds)]

LastSpace(l) == Max({i \in 1..Len(l) : l[i] = " "})

OutKey(l) == SubSeq(l, 1, LastSpace(l) - 1)

OutCount(l) == Decimal(SubSeq(l, LastSpace(l) + 1, Len(l)))

RECURSIVE SumCounts(_)
SumCounts(ls) ==
    IF ls = <<>> THEN 0 ELSE OutCount(ls[1]) + SumCounts(Tail(ls))

\* byte order on strings, a proper prefix first
LexLess(a, b) ==
    \E i \in 1..Len(b) :
        /\ i <= Len(a) + 1
        /\ \A j \in 1..(i - 1) : a[j] = b[j]
        /\ (i > Len(a) \/ Ascii[a[i]] < Ascii[b[i]])

----------------------------------------------------------------------------
(* C1 *)

\* C1: after a well-formed stream has been processed, the table maps the key
\* of each event's (process label, frames) pair to the number of events with
\* that same pair, and holds no other key.
C1_CountPerPair ==
    (status = "finished" /\ WellFormed(read)) =>
        /\ DOMAIN occurrences =
              {FoldedKey(EventPair(read, b, opt)) : b \in BlankIdx(read)}
        /\ \A b \in BlankIdx(read) :
              occurrences[FoldedKey(EventPair(read, b, opt))] =
                  Cardinality({c \in BlankIdx(read) :
                                  EventPair(read, c, opt) = EventPair(read, b, opt)})

\* The same count, for the streams none of whose process labels holds a `;`
CountPerPairWithoutSemicolon ==
    (/\ status = "finished" /\ WellFormed(read)
     /\ \A b \in BlankIdx(read) :
           \A i \in 1..Len(EventPair(read, b, opt)[1]) :
               EventPair(read, b, opt)[1][i] # ";")
    => C1_CountPerPair

\* Two events with different pairs and one key have been counted
C1_TwoPairsOneKey ==
    /\ status = "finished" /\ WellFormed(read)
    /\ \E b, c \in BlankIdx(read) :
          /\ EventPair(read, b, opt) # EventPair(read, c, opt)
          /\ FoldedKey(EventPair(read, b, opt)) = FoldedKey(EventPair(read, c, opt))

----------------------------------------------------------------------------
(* C2 *)

\* C2: a blank line read while in_event is false changes neither the table
\* nor pname, stack, skip_stack, in_event.
C2_BlankOutsideEventIsNoOp ==
    [][(status = "reading" /\ ~in_event /\ BlankStep)
       => UNCHANGED <<occurrences, pname, stack, skip_stack, in_event>>]_vars

----------------------------------------------------------------------------
(* C3 *)

\* a line handled as a header whose extraction fails
C3_BadHeaderStep ==
    (status = "reading" /\ ~in_event /\ TextStep /\ HeaderBad(Last(read')))
    => (~in_event' /\ UNCHANGED <<stack, pname, occurrences>>)

\* a stream of one such line and one complete valid event, at its end
C3_BadHeaderThenEvent ==
    (/\ status = "finished"
     /\ Len(read) >= 3
     /\ HeaderBad(read[1])
     /\ WellFormed(Tail(read))
     /\ BlankIdx(read) = {Len(read)})
    => occurrences = (FoldedKey(EventPair(Tail(read), Len(read) - 1, opt)) :> 1)

\* C3: a line handled as a header whose extraction fails leaves in_event
\* false and stack, pname and the table as they were; and a stream made of
\* one such line and then one complete valid event ends with one entry, that
\* event's key with count 1.
C3_MalformedHeaderSkipped ==
    [][C3_BadHeaderStep]_vars /\ []C3_BadHeaderThenEvent

\* A malformed header, a valid event with a frame, and the end of the stream
C3_Witness ==
    /\ status = "finished"
    /\ Len(read) = 4
    /\ HeaderBad(read[1])
    /\ WellFormed(Tail(read))
    /\ BlankIdx(read) = {4}
    /\ Len(stderr) = 1
    /\ Cardinality(DOMAIN occurrences) = 1

----------------------------------------------------------------------------
(* C4 *)

\* the line lacks the minimum structure of a stack line: no space after the
\* program counter, no second token in the remainder, or a last token of
\* fewer than 2 characters
LacksStructure(line) ==
    LET l1     == trim_start(line)
        spaces == {i \in 1..Len(l1) : l1[i] = " "}
    IN  \/ spaces = {}
        \/ Cardinality(spaces) = 1
        \/ Len(l1) - Max(spaces) < 2

\* C4: a line handled as a stack line that lacks the minimum structure pushes
\* no frame, changes nothing of the parser, and the run continues.
C4_MalformedStackLineSkipped ==
    [][(/\ status = "reading" /\ in_event /\ TextStep
        /\ LacksStructure(trim_end(Last(read'))))
       => (/\ status' = "reading"
           /\ UNCHANGED <<in_event, pname, stack, occurrences>>)]_vars

----------------------------------------------------------------------------
(* C5 *)

\* C5: the end of the stream flushes nothing: the counts printed add up to
\* the blank lines read, also when the stream ends inside an event.
C5_OnlyBlankLinesFlush ==
    status = "finished" =>
        /\ SumCounts(out) = Cardinality(BlankIdx(read))
        /\ Len(out) = Cardinality(DOMAIN occurrences)

\* The stream ended inside an event that has a frame, after an earlier event
C5_Witness ==
    /\ status = "finished"
    /\ in_event
    /\ stack # <<>>
    /\ out # <<>>

----------------------------------------------------------------------------
(* C6 *)

\* `;bar;foo` and `java;bar;foo 2`
BarFoo == <<";", "b", "a", "r", ";", "f", "o", "o">>
JavaBarFoo2 ==
    <<"j", "a", "v", "a", ";", "b", "a", "r", ";", "f", "o", "o", " ", "2">>

\* C6: the stack is the reverse of the frames appended in the order their
\* lines were read, so the key lists them in the reverse of that order; the
\* scenario given twice yields the one entry `java;bar;foo` with count 2.
C6_ReverseOfReadOrder ==
    /\ in_event =>
          stack = Reverse(AppendedFrames(read, HeaderIdx(read) + 1, Len(read), opt))
    /\ (status = "finished" /\ read = Scenario) =>
          /\ occurrences = ((pname \o BarFoo) :> 2)
          /\ opt = DefaultOpt => out = <<JavaBarFoo2>>

\* The scenario has been read to its end under the default options
C6_Witness ==
    /\ status = "finished"
    /\ read = Scenario
    /\ opt = DefaultOpt
    /\ out = <<JavaBarFoo2>>

----------------------------------------------------------------------------
(* C7 *)

\* C7: under `all` alone the frame pushed is the one pushed when both
\* annotate_kernel and annotate_jit are set.
C7_AllAnnotatesBoth ==
    (/\ Len(read) = 2 /\ read[2] \in FrameLines /\ stack # <<>>
     /\ opt.annotate_all /\ ~opt.annotate_kernel /\ ~opt.annotate_jit)
    => stack = <<frame_name(stack_line_parts(read[2]),
                            [opt EXCEPT !.annotate_kernel = TRUE,
                                        !.annotate_jit = TRUE])>>

----------------------------------------------------------------------------
(* C8 *)

\* C8: at the end the output has one line per key of the table, with that
\* key's count, the keys in strictly increasing byte order.
C8_SortedOutput ==
    status = "finished" =>
        /\ Len(out) = Cardinality(DOMAIN occurrences)
        /\ \A i \in 1..Len(out) :
              /\ OutKey(out[i]) \in DOMAIN occurrences
              /\ OutCount(out[i]) = occurrences[OutKey(out[i])]
        /\ \A i \in 1..(Len(out) - 1) : LexLess(OutKey(out[i]), OutKey(out[i + 1]))

\* Two keys were printed, the one counted first printed last
C8_Witness ==
    /\ status = "finished"
    /\ read = <<JavaBarHeader, BlankLine, JavaHeader, BlankLine>>
    /\ Len(out) = 2

----------------------------------------------------------------------------
(* C9 *)

\* `java-100/200`, `java-100`, `java`
Java100200 == <<"j", "a", "v", "a", "-", "1", "0", "0", "/", "2", "0", "0">>
Java100 == <<"j", "a", "v", "a", "-", "1", "0", "0">>
Java == <<"j", "a", "v", "a">>

\* the label the fields of a header give under the options o
ExpectedLabel(p, o) ==
    [i \in 1..Len(p.comm) |-> IF p.comm[i] = " " THEN "_" ELSE p.comm[i]]
    \o (CASE o.include_tid -> <<"-">> \o p.pid \o <<"/">> \o p.tid
          [] ~o.include_tid /\ o.include_pid -> <<"-">> \o p.pid
          [] OTHER -> <<>>)

\* a header line is parsed: in_event goes from false to true
C9_HeaderStep ==
    (status = "reading" /\ ~in_event /\ in_event') =>
        /\ pname' = ExpectedLabel(event_line_parts(trim_end(Last(read'))), opt)
        /\ Last(read') = JavaPidTidHeader =>
              pname' = IF opt.include_tid THEN Java100200
                       ELSE IF opt.include_pid THEN Java100
                       ELSE Java

\* C9: after a header is parsed, pname is comm with `_` for each space, then
\* `-<pid>/<tid>` under include_tid, else `-<pid>` under include_pid, else
\* nothing.
C9_ProcessLabel == [][C9_HeaderStep]_vars

\* The header of comm java, pid 100, tid 200 was parsed under both flags
C9_Witness ==
    /\ read = <<JavaPidTidHeader>>
    /\ in_event
    /\ opt.include_tid /\ opt.include_pid
    /\ pname = Java100200

----------------------------------------------------------------------------
(* C10 *)

AllDigits(w) == w # <<>> /\ \A i \in 1..Len(w) : is_ascii_digit(w[i])

\* the words of a line (maximal runs without a space) as (first, last) offsets
Words(l) ==
    {w \in (1..Len(l)) \X (1..Len(l)) :
        /\ w[1] <= w[2]
        /\ \A i \in w[1]..w[2] : l[i] # " "
        /\ (w[1] = 1 \/ l[w[1] - 1] = " ")
        /\ (w[2] = Len(l) \/ l[w[2] + 1] = " ")}

\* a word of digits, or of digits, `/`, digits
NumericWord(w) ==
    \/ AllDigits(w)
    \/ \E k \in 1..Len(w) :
          /\ w[k] = "/"
          /\ AllDigits(SubSeq(w, 1, k - 1))
          /\ AllDigits(SubSeq(w, k + 1, Len(w)))

\* the fields the claim gives a line: taken from its first numeric word that a
\* space follows (and, comm coming before it, that a space precedes)
FieldsOf(l) ==
    LET cand  == {w \in Words(l) :
                     /\ NumericWord(SubSeq(l, w[1], w[2]))
                     /\ 1 < w[1] /\ w[2] < Len(l)}
        first == CHOOSE w \in cand : \A v \in cand : w[1] <= v[1]
        word  == SubSeq(l, first[1], first[2])
        slash == {k \in 1..Len(word) : word[k] = "/"}
    IN  [some |-> TRUE,
         comm |-> SubSeq(l, 1, first[1] - 2),
         pid  |-> IF slash = {} THEN <<"?">> ELSE SubSeq(word, 1, Min(slash) - 1),
         tid  |-> IF slash = {} THEN word ELSE SubSeq(word, Min(slash) + 1, Len(word))]

\* `vote`, `913`
Vote == <<"v", "o", "t", "e">>
Tid913 == <<"9", "1", "3">>

\* C10: when extraction succeeds the fields are those of the first numeric
\* word that a space follows: a tid of digits, a pid of digits or `?`, comm
\* the text before the word; `vote   913 ...` gives comm vote and tid 913.
C10_FirstNumericWord ==
    (Len(read) = 1 /\ in_event) =>
        LET line == trim_end(read[1])
            p    == event_line_parts(line)
        IN  /\ AllDigits(p.tid)
            /\ p.pid = <<"?">> \/ AllDigits(p.pid)
            /\ p = FieldsOf(line)
            /\ read[1] = VoteHeader => (p.comm = Vote /\ p.tid = Tid913)

----------------------------------------------------------------------------
(* C11 *)

\* the line holds a numeric word with a space before it and a space after it
HasNumericWord(l) ==
    \E w \in Words(l) :
        /\ NumericWord(SubSeq(l, w[1], w[2]))
        /\ 1 < w[1] /\ w[2] < Len(l)

\* C11: a first line that holds no numeric word between two spaces fails
\* extraction: it opens no event and one diagnostic is printed.
C11_NoNumericWordFails ==
    (/\ Len(read) = 1 /\ IsText(read[1])
     /\ ~HasNumericWord(trim_end(read[1])))
    => (~in_event /\ Len(stderr) = 1)

\* What the scan does accept: extraction succeeds exactly when some space of
\* the line is followed by a run of digits and `/`, empty or not, and then by
\* another space
SucceedsOnDigitSlashRun ==
    (Len(read) = 1 /\ IsText(read[1])) =>
        LET l == trim_end(read[1])
        IN  in_event <=>
                \E i, j \in 1..Len(l) :
                    /\ i < j /\ l[i] = " " /\ l[j] = " "
                    /\ \A k \in (i + 1)..(j - 1) : is_ascii_digit(l[k]) \/ l[k] = "/"

----------------------------------------------------------------------------
(* C12 *)

\* `(anonymous namespace)`
AnonMarker == <<"(">> \o AnonNs

\* the first `(` of the name opens the marker `(anonymous namespace)`
OpensAnonMarker(func) ==
    /\ find(func, <<"(">>) # 0
    /\ starts_with(From(func, find(func, <<"(">>)), AnonMarker)

\* the raw function name of the stack line read second, its offset stripped
FrameFunc == strip_offset(stack_line_parts(trim_end(read[2])).rawfunc)

\* a frame was pushed for the stack line read second
FramePushed ==
    /\ Len(read) >= 2
    /\ FrameOk(read[2])
    /\ Len(stack) = 1

\* C12: a function name whose first `(` opens `(anonymous namespace)` is not
\* truncated at that `(`: the frame pushed starts with the whole name.
C12_AnonymousNamespaceKept ==
    (FramePushed /\ OpensAnonMarker(FrameFunc))
    => starts_with(stack[1], replace(FrameFunc, ";", ":"))

----------------------------------------------------------------------------
(* C13 *)

\* the name the parenthesis step of tidy_generic is given for the stack line
\* read second: the raw name, offset stripped, `;` replaced (no `[unknown]`)
ParenStepName == replace(FrameFunc, ";", ":")

\* the offset of the first `(` of a name that holds one
FirstParen(func) == Min({i \in 1..Len(func) : func[i] = "("})

\* C13: a name that holds a `(` which opens no anonymous-namespace marker is
\* pushed as it is when a `.` stands right before its first `(`, and else as
\* its prefix before that `(`, which holds no `(`.
C13_GoKeptElseTruncated ==
    (/\ FramePushed
     /\ FrameFunc # UnknownBr
     /\ \E i \in 1..Len(ParenStepName) : ParenStepName[i] = "("
     /\ ~OpensAnonMarker(ParenStepName))
    => LET p == FirstParen(ParenStepName)
       IN  IF p > 1 /\ ParenStepName[p - 1] = "."
           THEN stack[1] = ParenStepName
           ELSE /\ stack[1] = SubSeq(ParenStepName, 1, p - 1)
                /\ \A i \in 1..Len(stack[1]) : stack[1][i] # "("

\* The Go method name `net/http.(*Client).Do` was pushed whole
C13_Witness ==
    /\ FramePushed
    /\ FrameFunc = RawGo
    /\ stack = <<RawGo>>

\* A name with an argument list was pushed without it: `f(int)` as `f`
C13_TruncatedReached ==
    /\ FramePushed
    /\ FrameFunc = RawArgs
    /\ stack = <<<<"f">>>>

----------------------------------------------------------------------------
(* C14 *)

\* the raw function name of the stack line read second, as extracted
RawFunc == stack_line_parts(trim_end(read[2])).rawfunc

\* `+0x` stands at offset i of the name and only hexadecimal digits follow it
\* up to the end of the name
HexOffsetAt(name, i) ==
    /\ i + 2 <= Len(name)
    /\ SubSeq(name, i, i + 2) = <<"+", "0", "x">>
    /\ \A k \in (i + 3)..Len(name) :
          name[k] \in {"0", "1", "2", "3", "4", "5", "6", "7", "8", "9",
                       "a", "b", "c", "d", "e", "f", "A", "B", "C", "D", "E", "F"}

\* a name that the later steps push as they get it: no `(`, no `;`, not
\* `[unknown]`
PlainName(name) ==
    /\ name # UnknownBr
    /\ \A i \in 1..Len(name) : name[i] \notin {"(", ";"}

\* C14: the offset is stripped exactly when the raw name holds `+0x` followed
\* only by hexadecimal digits up to its end, and then the name is cut at that
\* `+`; `foo+0xZZ` is left as it is.
C14_OffsetStripped ==
    (FramePushed /\ PlainName(RawFunc)) =>
        /\ \A i \in 1..Len(RawFunc) :
              HexOffsetAt(RawFunc, i) => stack[1] = SubSeq(RawFunc, 1, i - 1)
        /\ (\A i \in 1..Len(RawFunc) : ~HexOffsetAt(RawFunc, i))
              => stack[1] = RawFunc
        /\ RawFunc = RawBadOffset => stack[1] = RawBadOffset

\* `foo+0x1f` was pushed as `foo`
C14_Witness ==
    /\ FramePushed
    /\ RawFunc = RawOffset
    /\ stack = <<RawFoo>>

\* `foo+0xZZ` was pushed whole
C14_NonHexReached ==
    /\ FramePushed
    /\ RawFunc = RawBadOffset
    /\ stack = <<RawBadOffset>>

----------------------------------------------------------------------------
(* C15 *)

\* `[foo.so]`, `[foo.so <1234>]`
FooSoFrame == <<"[", "f", "o", "o", ".", "s", "o", "]">>
FooSoPcFrame ==
    <<"[", "f", "o", "o", ".", "s", "o", " ", "<", "1", "2", "3", "4", ">", "]">>

\* the X of the claim: `unknown` for the module `[unknown]`, else the text
\* after the last `/` of the module, the whole module when it has none
FallbackText(m) ==
    LET slashes == {i \in 1..Len(m) : m[i] = "/"}
    IN  IF m = <<"[", "u", "n", "k", "n", "o", "w", "n", "]">>
        THEN <<"u", "n", "k", "n", "o", "w", "n">>
        ELSE IF slashes = {} THEN m
        ELSE SubSeq(m, Max(slashes) + 1, Len(m))

\* C15: with no annotation asked for, the frame of the raw function
\* `[unknown]` is `[X]`, and `[X <pc>]` under include_addrs (for an X that
\* generic tidy leaves alone: no `(`, no `;`); the frame of a raw function
\* that the other steps leave alone is the raw function, with or without
\* include_addrs.
C15_ModuleFallback ==
    (/\ FramePushed /\ read[2] \in FrameLines
     /\ ~opt.annotate_kernel /\ ~opt.annotate_jit)
    => LET parts == stack_line_parts(trim_end(read[2]))
           X     == FallbackText(parts.module)
       IN  /\ (/\ parts.rawfunc = <<"[", "u", "n", "k", "n", "o", "w", "n", "]">>
               /\ \A i \in 1..Len(X) : X[i] \notin {"(", ";"}) =>
                 stack[1] = IF opt.include_addrs
                            THEN <<"[">> \o X \o <<" ", "<">> \o parts.pc \o <<">", "]">>
                            ELSE <<"[">> \o X \o <<"]">>
           /\ (/\ PlainName(parts.rawfunc)
               /\ \A i \in 1..Len(parts.rawfunc) : ~HexOffsetAt(parts.rawfunc, i))
                 => stack[1] = parts.rawfunc
           /\ (parts.rawfunc = RawUnknown /\ parts.module = ModLib) =>
                 stack[1] = IF opt.include_addrs THEN FooSoPcFrame ELSE FooSoFrame

\* `[unknown]` of /path/to/foo.so at pc 1234 was pushed under include_addrs
C15_Witness ==
    /\ FramePushed
    /\ read[2] = stack_line(Pc, RawUnknown, ModLib)
    /\ opt.include_addrs /\ ~opt.annotate_kernel /\ ~opt.annotate_jit
    /\ stack = <<FooSoPcFrame>>

\* a named function was pushed without the pc under include_addrs
C15_NamedReached ==
    /\ FramePushed
    /\ read[2] = stack_line(Pc, RawFoo, ModLib)
    /\ opt.include_addrs /\ ~opt.annotate_kernel /\ ~opt.annotate_jit
    /\ stack = <<RawFoo>>

----------------------------------------------------------------------------
(* C16 *)

\* how many `;` a string holds
Semicolons(s) == Cardinality({i \in 1..Len(s) : s[i] = ";"})

\* no frame held in the stack holds a `;`
C16_NoSemicolonInFrames ==
    \A i \in 1..Len(stack) : Semicolons(stack[i]) = 0

\* a blank line counts one key, made of pname and then of as many `;` as the
\* stack held frames
C16_KeyStep ==
    (status = "reading" /\ BlankStep) =>
        \E k \in DOMAIN occurrences' :
            /\ occurrences'[k] =
                  IF k \in DOMAIN occurrences THEN occurrences[k] + 1 ELSE 1
            /\ SubSeq(k, 1, Len(pname)) = pname
            /\ Semicolons(SubSeq(k, Len(pname) + 1, Len(k))) = Len(stack)

\* C16: in every state no frame of the stack holds a `;`, so in every key
\* added to the table the part after the process label has one `;` per frame
\* of the event.
C16_DelimiterInvariant ==
    []C16_NoSemicolonInFrames /\ [][C16_KeyStep]_vars

\* `java;[a:b.so];a:b`
SemiStreamKey ==
    <<"j", "a", "v", "a", ";", "[", "a", ":", "b", ".", "s", "o", "]", ";",
      "a", ":", "b">>

\* The event whose function name and module hold a `;` has been counted
C16_Witness ==
    /\ read = SemiStream
    /\ occurrences = (SemiStreamKey :> 1)

----------------------------------------------------------------------------
(* C17 *)

\* the module starts with `[` or ends with `vmlinux`, and is not `[unknown]`
KernelModule(m) ==
    /\ \/ (m # <<>> /\ m[1] = "[")
       \/ (Len(m) >= 7 /\ SubSeq(m, Len(m) - 6, Len(m)) =
                              <<"v", "m", "l", "i", "n", "u", "x">>)
    /\ m # <<"[", "u", "n", "k", "n", "o", "w", "n", "]">>

\* the module starts with `/tmp/perf-` and ends with `.map`
JitModule(m) ==
    /\ Len(m) >= 10
    /\ SubSeq(m, 1, 10) = <<"/", "t", "m", "p", "/", "p", "e", "r", "f", "-">>
    /\ SubSeq(m, Len(m) - 3, Len(m)) = <<".", "m", "a", "p">>

\* `foo_[k]`, `foo_[j]`
FooK == <<"f", "o", "o", "_", "[", "k", "]">>
FooJ == <<"f", "o", "o", "_", "[", "j", "]">>

\* C17: the frame pushed is the tidied name, then `_[k]` exactly when
\* annotate_kernel is set and the module is a kernel module, then `_[j]`
\* exactly when annotate_jit is set and the module is a JIT map.
C17_AnnotationSuffixes ==
    (FramePushed /\ read[2] \in FrameLines) =>
        LET parts == stack_line_parts(trim_end(read[2]))
            base  == tidy_generic(
                         with_module_fallback(parts.module,
                                              strip_offset(parts.rawfunc),
                                              parts.pc, opt.include_addrs))
        IN  stack[1] =
                base
                \o (IF opt.annotate_kernel /\ KernelModule(parts.module)
                    THEN <<"_", "[", "k", "]">> ELSE <<>>)
                \o (IF opt.annotate_jit /\ JitModule(parts.module)
                    THEN <<"_", "[", "j", "]">> ELSE <<>>)

\* foo of [kernel.kallsyms] was pushed as `foo_[k]` under both flags
C17_Witness ==
    /\ FramePushed
    /\ read[2] = stack_line(Pc, RawFoo, ModKallsyms)
    /\ opt.annotate_kernel /\ opt.annotate_jit
    /\ stack = <<FooK>>

\* foo of /tmp/perf-1.map was pushed as `foo_[j]` under both flags
C17_JitReached ==
    /\ FramePushed
    /\ read[2] = stack_line(Pc, RawFoo, ModJit)
    /\ opt.annotate_kernel /\ opt.annotate_jit
    /\ stack = <<FooJ>>

\* no module of the model is both a kernel module and a JIT map
C17_NeverBoth ==
    (FramePushed /\ read[2] \in FrameLines) =>
        LET m == stack_line_parts(trim_end(read[2])).module
        IN  ~(KernelModule(m) /\ JitModule(m))

----------------------------------------------------------------------------
(* C18 *)

\* a step of the loop that reads a line which is not blank
NonBlankStep == Len(read') = Len(read) + 1 /\ ~IsBlank(Last(read'))

\* a line that is not blank, read while in_event is true
C18_InEventStep ==
    (status = "reading" /\ in_event /\ NonBlankStep) =>
        /\ in_event'
        /\ UNCHANGED <<pname, occurrences>>
        /\ \/ stack' = stack
           \/ (Len(stack') = Len(stack) + 1 /\ Tail(stack') = stack)

\* pname is written by a header only, in_event is reset by a blank line only
C18_WritesStep ==
    /\ pname' # pname => (~in_event /\ in_event' /\ TextStep)
    /\ (in_event /\ ~in_event') => BlankStep

\* C18: while in_event is true a line that is not blank leaves in_event,
\* pname and the table unchanged and inserts at most one frame at the front
\* of the stack, whatever its shape; so pname is written at a header only and
\* in_event returns to false on a blank line only.
C18_StackLinesOnlyInEvent ==
    [][C18_InEventStep /\ C18_WritesStep]_vars

\* the frame a header-shaped line gives when read as a stack line: `100 1.0:`
HeaderAsFrame == <<"1", "0", "0", " ", "1", ".", "0", ":">>

\* A line of the shape of a header, with another comm, was read inside an
\* event and pushed as a frame
C18_Witness ==
    /\ read = <<JavaHeader, JavaBarHeader>>
    /\ in_event
    /\ pname = Java
    /\ stack = <<HeaderAsFrame>>

----------------------------------------------------------------------------
(* C19 *)

\* C19: between two input lines, in_event false implies an empty stack.
C19_NoFramesOutsideEvent == ~in_event => stack = <<>>

\* An event with a frame has been closed by a line of white space
C19_Witness ==
    /\ read = SpacesStream
    /\ status = "reading"
    /\ ~in_event
    /\ stack = <<>>
    /\ Cardinality(DOMAIN occurrences) = 2

----------------------------------------------------------------------------
(* C20 *)

\* the sum of the counts of a table
RECURSIVE TableSum(_)
TableSum(occ) ==
    IF DOMAIN occ = {} THEN 0
    ELSE LET k == CHOOSE x \in DOMAIN occ : TRUE
         IN  occ[k] + TableSum([x \in DOMAIN occ \ {k} |-> occ[x]])

\* the counts add up to the blank lines read
C20_SumIsBlankLines == TableSum(occurrences) = Cardinality(BlankIdx(read))

\* a blank line adds 1 to one key, inserted if absent, and leaves the others;
\* any other step leaves the table as it was
C20_TableStep ==
    IF status = "reading" /\ BlankStep
    THEN \E k \in DOMAIN occurrences' :
            /\ DOMAIN occurrences' = DOMAIN occurrences \cup {k}
            /\ occurrences'[k] =
                  IF k \in DOMAIN occurrences THEN occurrences[k] + 1 ELSE 1
            /\ \A j \in DOMAIN occurrences : j # k => occurrences'[j] = occurrences[j]
    ELSE occurrences' = occurrences

\* C20: the counts of the table add up to the number of blank lines read so
\* far; a blank line adds 1 to exactly one key and no other step changes the
\* table.
C20_CountsAreBlankLines ==
    []C20_SumIsBlankLines /\ [][C20_TableStep]_vars

\* `java;bar;foo`
JavaBarFoo == <<"j", "a", "v", "a", ";", "b", "a", "r", ";", "f", "o", "o">>

\* The second blank line of the scenario has incremented the key of the first
C20_Witness ==
    /\ read = Scenario
    /\ occurrences = (JavaBarFoo :> 2)

====
